---- MODULE Spec2Model ----
(***************************************************************************)
(* Steam review dashboards (streamlit_app.py, themes.py): the sidebar      *)
(* validation, the paginated review collection fetch_reviews of both       *)
(* scripts, the truthiness guard on its result, the per-item sentiment     *)
(* loop analyze_sentiments and the top-5 / NPS summary of                  *)
(* streamlit_app.py, extract_themes and the theme display of themes.py.    *)
(*                                                                         *)
(* The upstream review API is the environment.  It holds a stream of       *)
(* reviews ordered most-recent-first (the request always carries           *)
(* filter=recent) and serves it in consecutive pages; the cursor is the    *)
(* offset of the next page, 0 standing for the initial cursor "*".  Each   *)
(* request is answered in one of four ways (UpstreamKinds); the answer to  *)
(* a given cursor never changes once it has been given (upstream_memo).    *)
(***************************************************************************)
EXTENDS Integers, Sequences, FiniteSets, TLC

VARIABLES
    prog,             \* which script runs: "app" (streamlit_app.py) or "themes"
    upstream,         \* the review stream held by the API and its page size
    upstream_memo,    \* cursor -> kind of answer the API has given for it
    start_date,       \* sidebar input, a day number
    end_date,         \* sidebar input, a day number
    api_key_input,    \* sidebar input, TRUE when a key was typed
    max_reviews,      \* argument of themes.py fetch_reviews
    start_timestamp,
    end_timestamp,
    params_cursor,    \* params["cursor"]
    reviews_list,
    request_count,
    pc,               \* position of the script
    reviews_data,     \* what fetch_reviews handed to its caller
    warned,           \* st.warning("Reached maximum number of requests...")
    df,               \* the DataFrame rows built from reviews_data
    runs_left,        \* button presses still to come
    prev_data,        \* reviews_data of the previous run
    obs,              \* observations of the current run (requests issued, ...)
    texts,            \* argument of analyze_sentiments, df["Review"].tolist()
    sentiments,       \* the list analyze_sentiments builds
    replied,          \* what the classification service did for each item so far
    apc,              \* position of analyze_sentiments
    frame,            \* df with its Sentiment and Helpful Votes columns
    top_5_positive,
    top_5_negative,
    nps,              \* nps_counts, total_responses and nps_score
    spc,              \* position of the summary code
    notice,           \* st.error / st.info of the sidebar validation
    extract_calls,    \* requests sent to the theme extraction service
    response_text,    \* what the extraction service replied
    themes_df,        \* what extract_themes handed to its caller
    themes_table,     \* the rows st.dataframe(themes_df) put on the page
    theme_sections,   \* the "#### Theme: ..." sections put on the page
    tpc               \* position of the theme code of themes.py

fetchVars == <<prog, upstream, upstream_memo, start_date, end_date,
               api_key_input, max_reviews, start_timestamp, end_timestamp,
               params_cursor, reviews_list, request_count, pc, reviews_data,
               warned, df, runs_left, prev_data, obs>>

sentimentVars == <<texts, sentiments, replied, apc>>

summaryVars == <<frame, top_5_positive, top_5_negative, nps, spc>>

scriptVars == <<notice, extract_calls, response_text, themes_df, themes_table,
                theme_sections, tpc>>

----------------------------------------------------------------------------
(* Bounds of the model *)

MaxDay == 2
DayLen == 2
MaxLen == 3
MaxPage == 2
MaxReviewsArg == 2
MaxRuns == 2
MaxFaultCursor == 4
MaxTexts == 2
MaxContentLen == 2
MaxRows == 6
MaxVotes == 1
MaxThemes == 2

(* Program constants *)

max_requests == 50
TopN == 5
DefaultMaxReviews == 200

----------------------------------------------------------------------------
(* Helpers *)

Min(a, b) == IF a < b THEN a ELSE b

Max(a, b) == IF a < b THEN b ELSE a

Prefix(s, n) == SubSeq(s, 1, Min(n, Len(s)))

IsPrefix(s, t) == Len(s) <= Len(t) /\ s = SubSeq(t, 1, Len(s))

----------------------------------------------------------------------------
(* The upstream review API *)

\* a run of equal-timestamp reviews too long to page through, one review a
\* page, within the request budget
LongRun == max_requests + 1

NonIncreasing(s) == \A i \in 1 .. Len(s) - 1 : s[i] >= s[i + 1]

\* streams of up to MaxLen timestamps taken from T, most recent first.
\* base: the timestamps; long_at: the position of base that is followed by
\* LongRun more reviews of the same timestamp (0: none); page: the number of
\* reviews the API puts on a page (1 for the streams with a long run)
Upstreams(T) ==
    UNION {{u \in [base : {s \in [1 .. n -> T] : NonIncreasing(s)},
                   long_at : 0 .. n, page : 1 .. MaxPage] :
               u.long_at # 0 => u.page = 1} : n \in 0 .. MaxLen}

StreamLen(u) == Len(u.base) + (IF u.long_at = 0 THEN 0 ELSE LongRun)

TsAt(u, i) ==
    IF u.long_at = 0 \/ i < u.long_at THEN u.base[i]
    ELSE IF i <= u.long_at + LongRun THEN u.base[u.long_at]
    ELSE u.base[i - LongRun]

Review(u, i) == [recommendationid |-> i, timestamp_created |-> TsAt(u, i)]

\* data["reviews"] of the answer to a request with the given cursor
PageAt(u, cursor) ==
    [k \in 1 .. Min(u.page, Max(StreamLen(u) - cursor, 0)) |-> Review(u, cursor + k)]

\* the whole stream, most recent first
Stream(u) == [i \in 1 .. StreamLen(u) |-> Review(u, i)]

\* the ways the API answers one request: a page with a fresh cursor, a page
\* with the cursor that was sent, a body with success != 1, or no usable
\* body at all (requests / json raise)
UpstreamKinds == {"ok", "same_cursor", "not_success", "exception"}

\* data["cursor"] of a successful answer
CursorOf(kind, cursor, reviews) ==
    IF kind = "same_cursor" THEN cursor ELSE cursor + Max(Len(reviews), 1)

\* the API answers the cursor as it did before, if it was asked before;
\* answers other than "ok" are explored for the cursors up to MaxFaultCursor
Answers(kind) ==
    /\ kind \in UpstreamKinds
    /\ kind # "ok" => params_cursor <= MaxFaultCursor
    /\ params_cursor \in DOMAIN upstream_memo => kind = upstream_memo[params_cursor]

Remember(kind) ==
    IF params_cursor \in DOMAIN upstream_memo THEN upstream_memo
    ELSE upstream_memo @@ (params_cursor :> kind)

----------------------------------------------------------------------------
(* Date window *)

Days == 1 .. MaxDay

\* int(time.mktime(start_date.timetuple()))
StartTimestamp(d) == d * DayLen

\* int(time.mktime((end_date + timedelta(days=1)).timetuple())) - 1
EndTimestamp(d) == ((d + 1) * DayLen) - 1

\* the timestamps on both sides of the two ends of the selected dates
WindowEdges(from, to) ==
    {StartTimestamp(from) - 1, StartTimestamp(from), EndTimestamp(to), EndTimestamp(to) + 1}

\* the window with its start excluded
InWindowOpenStart(r) ==
    start_timestamp < r.timestamp_created /\ r.timestamp_created <= end_timestamp

InWindow(r) ==
    start_timestamp <= r.timestamp_created /\ r.timestamp_created <= end_timestamp

----------------------------------------------------------------------------
(* fetch_reviews of streamlit_app.py: the for loop over one page *)

\* early: the loop hit "return reviews_list" at a review older than the window
RECURSIVE ScanApp(_, _, _)
ScanApp(reviews, i, acc) ==
    IF i > Len(reviews) THEN [list |-> acc, early |-> FALSE]
    ELSE IF InWindow(reviews[i]) THEN ScanApp(reviews, i + 1, Append(acc, reviews[i]))
    ELSE IF reviews[i].timestamp_created < start_timestamp
         THEN [list |-> acc, early |-> TRUE]
    ELSE ScanApp(reviews, i + 1, acc)

(* fetch_reviews of themes.py: the for loop over one page *)

\* older: the loop hit "break" at a review older than the window
RECURSIVE ScanThemes(_, _, _)
ScanThemes(reviews, i, acc) ==
    IF i > Len(reviews) THEN [list |-> acc, older |-> FALSE]
    ELSE IF InWindow(reviews[i])
         THEN IF Len(acc) + 1 >= max_reviews
              THEN [list |-> Append(acc, reviews[i]), older |-> FALSE]
              ELSE ScanThemes(reviews, i + 1, Append(acc, reviews[i]))
    ELSE IF reviews[i].timestamp_created < start_timestamp
         THEN [list |-> acc, older |-> TRUE]
    ELSE ScanThemes(reviews, i + 1, acc)

----------------------------------------------------------------------------
(* Values handed back by fetch_reviews *)

NoData == [kind |-> "unset", val |-> <<>>]

ReturnNone == [kind |-> "None", val |-> <<>>]

Raised == [kind |-> "raised", val |-> <<>>]

ReturnList(l) == [kind |-> "list", val |-> l]

\* the guard written as "if reviews_data is not None:"
IsNotNone(d) == d.kind = "list"

\* Python truthiness of reviews_data
Truthy(d) == d.kind = "list" /\ d.val # <<>>

NoObs ==
    [requests |-> 0, older_at |-> 0, answer |-> "none", sent |-> 0, got |-> 0,
     empty |-> FALSE]

\* the current run has issued one more request, answered with kind
Observe(kind, reviews, older) ==
    [requests |-> obs.requests + 1,
     older_at |-> IF obs.older_at = 0 /\ older THEN obs.requests + 1 ELSE obs.older_at,
     answer   |-> kind,
     sent     |-> params_cursor,
     got      |-> CursorOf(kind, params_cursor, reviews),
     empty    |-> reviews = <<>>]

----------------------------------------------------------------------------
(* Decisions of the pagination loop *)

\* params kept from the previous run
LeftoverCursor == params_cursor

\* params = {..., "cursor": "*", ...} is built anew on every button run
InitialCursor == 0

\* the cursor comparison left out
CursorNeverUnchanged(cursor, new_cursor) == FALSE

\* if params["cursor"] == new_cursor: break
CursorUnchanged(cursor, new_cursor) == cursor = new_cursor

\* the budget test off by one
BudgetOffByOne(count) == count > max_requests

\* if request_count >= max_requests: st.warning(...); break
BudgetExhausted(count) == count >= max_requests

\* the cap taken as reached by the first accepted review
CapAtFirst(list) == list # <<>>

\* the cap test after the page left out
CapIgnored(list) == FALSE

\* themes.py: if len(reviews_list) >= max_reviews: break
CapReached(list) == Len(list) >= max_reviews

\* the accumulated list handed back on failure
PartialValue(list) == ReturnList(list)

\* return None after a failed request
FailureValue(list) == ReturnNone

----------------------------------------------------------------------------
(* The button run: sidebar validation, window, params *)

Finished == pc \in {"shown", "nothing", "crashed"}

\* the test of the key left out
DatesValid == start_date <= end_date

\* neither "if start_date > end_date:" nor "elif not api_key_input:" applies
InputsValid == start_date <= end_date /\ api_key_input

\* st.error("Error: End date must fall after start date.") or
\* st.info("Please input your OpenAI API Key to proceed."): the button is not
\* drawn and the script ends
Refuse ==
    /\ pc = "idle"
    /\ ~InputsValid
    /\ notice = "none"
    /\ notice' = IF start_date > end_date THEN "error" ELSE "info"
    /\ UNCHANGED <<extract_calls, response_text, themes_df, themes_table,
                   theme_sections, tpc>>
    /\ UNCHANGED <<fetchVars, sentimentVars, summaryVars>>

Click ==
    /\ pc = "idle" \/ Finished
    /\ runs_left > 0
    /\ InputsValid
    /\ runs_left' = runs_left - 1
    /\ prev_data' = reviews_data
    /\ start_timestamp' = StartTimestamp(start_date)
    /\ end_timestamp' = EndTimestamp(end_date)
    /\ params_cursor' = InitialCursor
    /\ reviews_list' = <<>>
    /\ request_count' = 0
    /\ reviews_data' = NoData
    /\ warned' = FALSE
    /\ df' = <<>>
    /\ obs' = NoObs
    /\ pc' = "fetch"
    /\ UNCHANGED <<prog, upstream, upstream_memo, start_date, end_date,
                   api_key_input, max_reviews>>
    /\ UNCHANGED <<sentimentVars, summaryVars, scriptVars>>

----------------------------------------------------------------------------
(* One iteration of "while True" in streamlit_app.py fetch_reviews *)

\* requests.get / response.json / data["success"] raise: nothing catches it
AppException ==
    /\ pc = "fetch" /\ prog = "app"
    /\ Answers("exception")
    /\ upstream_memo' = Remember("exception")
    /\ obs' = Observe("exception", <<>>, FALSE)
    /\ reviews_data' = Raised
    /\ pc' = "crashed"
    /\ UNCHANGED <<prog, upstream, start_date, end_date, api_key_input,
                   max_reviews, start_timestamp, end_timestamp, params_cursor,
                   reviews_list, request_count, warned, df, runs_left, prev_data>>
    /\ UNCHANGED <<sentimentVars, summaryVars, scriptVars>>

\* data["success"] != 1
AppNotSuccess ==
    /\ pc = "fetch" /\ prog = "app"
    /\ Answers("not_success")
    /\ upstream_memo' = Remember("not_success")
    /\ obs' = Observe("not_success", <<>>, FALSE)
    /\ reviews_data' = FailureValue(reviews_list)
    /\ pc' = "returned"
    /\ UNCHANGED <<prog, upstream, start_date, end_date, api_key_input,
                   max_reviews, start_timestamp, end_timestamp, params_cursor,
                   reviews_list, request_count, warned, df, runs_left, prev_data>>
    /\ UNCHANGED <<sentimentVars, summaryVars, scriptVars>>

\* a successful answer: scan the page, then cursor, emptiness and budget
AppPage ==
    \E kind \in {"ok", "same_cursor"} :
        LET reviews    == PageAt(upstream, params_cursor)
            scan       == ScanApp(reviews, 1, reviews_list)
            new_cursor == CursorOf(kind, params_cursor, reviews)
            stalled    == CursorUnchanged(params_cursor, new_cursor)
            counted    == ~scan.early /\ ~stalled /\ reviews # <<>>
            exhausted  == counted /\ BudgetExhausted(request_count + 1)
            leaves     == scan.early \/ stalled \/ reviews = <<>> \/ exhausted
        IN  /\ pc = "fetch" /\ prog = "app"
            /\ Answers(kind)
            /\ upstream_memo' = Remember(kind)
            /\ obs' = Observe(kind, reviews, scan.early)
            /\ reviews_list' = scan.list
            /\ params_cursor' = IF scan.early \/ stalled THEN params_cursor
                                 ELSE new_cursor
            /\ request_count' = IF counted THEN request_count + 1 ELSE request_count
            /\ warned' = exhausted
            /\ reviews_data' = IF leaves THEN ReturnList(scan.list) ELSE reviews_data
            /\ pc' = IF leaves THEN "returned" ELSE "fetch"
            /\ UNCHANGED <<prog, upstream, start_date, end_date, api_key_input,
                           max_reviews, start_timestamp, end_timestamp, df, runs_left,
                           prev_data>>
            /\ UNCHANGED <<sentimentVars, summaryVars, scriptVars>>

\* if reviews_data: ... build the DataFrame (no else branch)
AppShow ==
    /\ pc = "returned" /\ prog = "app"
    /\ df' = IF Truthy(reviews_data) THEN reviews_data.val ELSE df
    /\ pc' = IF Truthy(reviews_data) THEN "shown" ELSE "nothing"
    /\ UNCHANGED <<prog, upstream, upstream_memo, start_date, end_date,
                   api_key_input, max_reviews, start_timestamp, end_timestamp,
                   params_cursor, reviews_list, request_count, reviews_data,
                   warned, runs_left, prev_data, obs>>
    /\ UNCHANGED <<sentimentVars, summaryVars, scriptVars>>

----------------------------------------------------------------------------
(* One iteration of "while True" in themes.py fetch_reviews *)

\* except requests.exceptions.RequestException: st.error(...); return None
ThemesException ==
    /\ pc = "fetch" /\ prog = "themes"
    /\ Answers("exception")
    /\ upstream_memo' = Remember("exception")
    /\ obs' = Observe("exception", <<>>, FALSE)
    /\ reviews_data' = FailureValue(reviews_list)
    /\ pc' = "returned"
    /\ UNCHANGED <<prog, upstream, start_date, end_date, api_key_input,
                   max_reviews, start_timestamp, end_timestamp, params_cursor,
                   reviews_list, request_count, warned, df, runs_left, prev_data>>
    /\ UNCHANGED <<sentimentVars, summaryVars, scriptVars>>

\* data.get("success") != 1
ThemesNotSuccess ==
    /\ pc = "fetch" /\ prog = "themes"
    /\ Answers("not_success")
    /\ upstream_memo' = Remember("not_success")
    /\ obs' = Observe("not_success", <<>>, FALSE)
    /\ reviews_data' = FailureValue(reviews_list)
    /\ pc' = "returned"
    /\ UNCHANGED <<prog, upstream, start_date, end_date, api_key_input,
                   max_reviews, start_timestamp, end_timestamp, params_cursor,
                   reviews_list, request_count, warned, df, runs_left, prev_data>>
    /\ UNCHANGED <<sentimentVars, summaryVars, scriptVars>>

\* a successful answer: emptiness, scan, cursor, cap and budget
ThemesPage ==
    \E kind \in {"ok", "same_cursor"} :
        LET reviews    == PageAt(upstream, params_cursor)
            scan       == IF reviews = <<>> THEN [list |-> reviews_list, older |-> FALSE]
                          ELSE ScanThemes(reviews, 1, reviews_list)
            new_cursor == CursorOf(kind, params_cursor, reviews)
            stalled    == CursorUnchanged(params_cursor, new_cursor)
            capped     == CapReached(scan.list)
            counted    == reviews # <<>> /\ ~stalled /\ ~capped
            exhausted  == counted /\ BudgetExhausted(request_count + 1)
            leaves     == reviews = <<>> \/ stalled \/ capped \/ exhausted
        IN  /\ pc = "fetch" /\ prog = "themes"
            /\ Answers(kind)
            /\ upstream_memo' = Remember(kind)
            /\ obs' = Observe(kind, reviews, scan.older)
            /\ reviews_list' = scan.list
            /\ params_cursor' = IF reviews = <<>> \/ stalled THEN params_cursor
                                 ELSE new_cursor
            /\ request_count' = IF counted THEN request_count + 1 ELSE request_count
            /\ warned' = exhausted
            /\ reviews_data' = IF leaves THEN ReturnList(scan.list) ELSE reviews_data
            /\ pc' = IF leaves THEN "returned" ELSE "fetch"
            /\ UNCHANGED <<prog, upstream, start_date, end_date, api_key_input,
                           max_reviews, start_timestamp, end_timestamp, df, runs_left,
                           prev_data>>
            /\ UNCHANGED <<sentimentVars, summaryVars, scriptVars>>

\* if reviews_data: ... else: st.warning("No reviews to display.")
ThemesShow ==
    /\ pc = "returned" /\ prog = "themes"
    /\ df' = IF Truthy(reviews_data) THEN reviews_data.val ELSE df
    /\ pc' = IF Truthy(reviews_data) THEN "shown" ELSE "nothing"
    /\ UNCHANGED <<prog, upstream, upstream_memo, start_date, end_date,
                   api_key_input, max_reviews, start_timestamp, end_timestamp,
                   params_cursor, reviews_list, request_count, reviews_data,
                   warned, runs_left, prev_data, obs>>
    /\ UNCHANGED <<sentimentVars, summaryVars, scriptVars>>

----------------------------------------------------------------------------
(* analyze_sentiments of streamlit_app.py *)

Labels == {"Positive", "Negative", "Neutral"}

\* a reply text is a list of tokens: blanks and words
Tokens == {" ", "Positive", "Negative", "Neutral"}

Contents == UNION {[1 .. n -> Tokens] : n \in 0 .. MaxContentLen}

RECURSIVE LStrip(_)
LStrip(c) == IF c # <<>> /\ Head(c) = " " THEN LStrip(Tail(c)) ELSE c

RECURSIVE RStrip(_)
RStrip(c) ==
    IF c # <<>> /\ c[Len(c)] = " " THEN RStrip(SubSeq(c, 1, Len(c) - 1)) ELSE c

\* str.strip()
Strip(c) == RStrip(LStrip(c))

\* the string a token list spells, as far as the comparison with the three
\* labels can tell strings apart
Spell(c) ==
    IF c = <<>> THEN "" ELSE IF Len(c) = 1 THEN c[1] ELSE "free text"

\* the reply kept as it came
Unvalidated(sentiment) == sentiment

\* if sentiment not in ["Positive", "Negative", "Neutral"]: sentiment = "Neutral"
Validate(sentiment) == IF sentiment \notin Labels THEN "Neutral" ELSE sentiment

\* for review_text in reviews: the item the loop is at
AtItem == apc = "loop" /\ Len(sentiments) < Len(texts)

\* client.chat.completions.create (or reading its result) raises
SentimentRaises ==
    /\ AtItem
    /\ sentiments' = Append(sentiments, "Neutral")
    /\ replied' = Append(replied, [kind |-> "raises", content |-> <<>>])
    /\ UNCHANGED <<texts, apc>>
    /\ UNCHANGED <<fetchVars, summaryVars, scriptVars>>

\* the reply has no "message" / "content": the conditional yields 'Neutral'
SentimentNoContent ==
    /\ AtItem
    /\ sentiments' = Append(sentiments, Validate("Neutral"))
    /\ replied' = Append(replied, [kind |-> "no_content", content |-> <<>>])
    /\ UNCHANGED <<texts, apc>>
    /\ UNCHANGED <<fetchVars, summaryVars, scriptVars>>

\* the reply carries a content text
SentimentContent ==
    \E c \in Contents :
        /\ AtItem
        /\ sentiments' = Append(sentiments, Validate(Spell(Strip(c))))
        /\ replied' = Append(replied, [kind |-> "content", content |-> c])
        /\ UNCHANGED <<texts, apc>>
        /\ UNCHANGED <<fetchVars, summaryVars, scriptVars>>

\* return sentiments
SentimentReturn ==
    /\ apc = "loop" /\ Len(sentiments) >= Len(texts)
    /\ apc' = "returned"
    /\ UNCHANGED <<texts, sentiments, replied>>
    /\ UNCHANGED <<fetchVars, summaryVars, scriptVars>>

----------------------------------------------------------------------------
(* Top 5 lists and NPS score of streamlit_app.py *)

\* df[df["Sentiment"] == label]
WithSentiment(rows, label) == SelectSeq(rows, LAMBDA r : r.sentiment = label)

\* ascending order
AscendingVotes(a, b) == a.votes <= b.votes

\* ascending=False: a may stand before b
DescendingVotes(a, b) == a.votes >= b.votes

\* sort_values(by="Helpful Votes", ascending=False) with the default
\* kind="quicksort", which is not stable: every arrangement of the rows in
\* descending order of votes is a possible result
RECURSIVE OrdersOf(_, _)
OrdersOf(rows, S) ==
    IF S = {} THEN {<<>>}
    ELSE UNION {{<<rows[i]>> \o t : t \in OrdersOf(rows, S \ {i})} :
                   i \in {j \in S : \A k \in S : DescendingVotes(rows[j], rows[k])}}

SortValues(rows) == OrdersOf(rows, 1 .. Len(rows))

\* .head(5)
HeadRows(rows) == SubSeq(rows, 1, Min(TopN, Len(rows)))

\* str.lower() on the sentiment labels
Lower(x) ==
    CASE x = "Positive" -> "positive"
      [] x = "Negative" -> "negative"
      [] x = "Neutral"  -> "neutral"
      [] OTHER          -> x

categorize_nps(sentiment) ==
    IF Lower(sentiment) = "positive" THEN "Promoter"
    ELSE IF Lower(sentiment) = "neutral" THEN "Passive"
    ELSE "Detractor"

\* nps_counts.get(category, 0) of df["NPS Category"].value_counts()
CountOf(rows, category) ==
    Cardinality({i \in 1 .. Len(rows) : categorize_nps(rows[i].sentiment) = category})

\* ((promoters - detractors) / total_responses) * 100, kept as a fraction;
\* with total_responses = 0 the division has no value
NpsScore(promoters, detractors, total_responses) ==
    IF total_responses = 0 THEN [kind |-> "no value", num |-> 0, den |-> 0]
    ELSE [kind |-> "value", num |-> (promoters - detractors) * 100,
          den |-> total_responses]

TopPositive ==
    /\ spc = "top_positive"
    /\ \E sorted \in SortValues(WithSentiment(frame, "Positive")) :
           top_5_positive' = HeadRows(sorted)
    /\ spc' = "top_negative"
    /\ UNCHANGED <<frame, top_5_negative, nps>>
    /\ UNCHANGED <<fetchVars, sentimentVars, scriptVars>>

TopNegative ==
    /\ spc = "top_negative"
    /\ \E sorted \in SortValues(WithSentiment(frame, "Negative")) :
           top_5_negative' = HeadRows(sorted)
    /\ spc' = "nps"
    /\ UNCHANGED <<frame, top_5_positive, nps>>
    /\ UNCHANGED <<fetchVars, sentimentVars, scriptVars>>

NpsCategories ==
    LET promoters  == CountOf(frame, "Promoter")
        passives   == CountOf(frame, "Passive")
        detractors == CountOf(frame, "Detractor")
        total_responses == promoters + passives + detractors
    IN  /\ spc = "nps"
        /\ nps' = [promoters |-> promoters, passives |-> passives,
                   detractors |-> detractors, total |-> total_responses,
                   score |-> NpsScore(promoters, detractors, total_responses)]
        /\ spc' = "done"
        /\ UNCHANGED <<frame, top_5_positive, top_5_negative>>
        /\ UNCHANGED <<fetchVars, sentimentVars, scriptVars>>

----------------------------------------------------------------------------
(* streamlit_app.py after the DataFrame: classification, then the summary *)

\* analyze_sentiments(df["Review"].tolist()) is entered
AppAnalyze ==
    /\ pc = "shown" /\ prog = "app" /\ apc = "off"
    /\ texts' = [i \in 1 .. Len(df) |-> df[i].recommendationid]
    /\ sentiments' = <<>>
    /\ replied' = <<>>
    /\ apc' = "loop"
    /\ UNCHANGED <<fetchVars, summaryVars, scriptVars>>

\* df["Sentiment"] = <the returned list>; the reviews of the fetched stream
\* carry votes_up = 0
AppSummary ==
    /\ pc = "shown" /\ prog = "app" /\ apc = "returned" /\ spc = "off"
    /\ frame' = [i \in 1 .. Len(df) |->
                    [id |-> df[i].recommendationid, sentiment |-> sentiments[i],
                     votes |-> 0]]
    /\ spc' = "top_positive"
    /\ UNCHANGED <<top_5_positive, top_5_negative, nps>>
    /\ UNCHANGED <<fetchVars, sentimentVars, scriptVars>>

----------------------------------------------------------------------------
(* extract_themes and the theme display of themes.py *)

\* values handed back by extract_themes
NoThemes == [kind |-> "unset", rows |-> <<>>]

ThemesNone == [kind |-> "None", rows |-> <<>>]

ThemesRaised == [kind |-> "raised", rows |-> <<>>]

\* pd.DataFrame(themes_list): one row per item
ThemesFrame(rows) == [kind |-> "frame", rows |-> rows]

\* the keys the response schema requires of every item of "themes"
ThemeKeys == {"Theme", "Description", "Review IDs"}

\* items of the "themes" array: all required keys or one of them missing,
\* naming the reviews of the prompt
ThemeItems(ids) ==
    {[keys |-> K, ids |-> IF "Review IDs" \in K THEN ids ELSE {}] :
        K \in {ThemeKeys} \cup {ThemeKeys \ {k} : k \in ThemeKeys}}

\* what the service puts into response.choices[0].message.content.  shape:
\*   "no_content"        content is None
\*   "not_json"          text that json.loads rejects
\*   "array"             a JSON array (the layout the prompt text asks for)
\*   "no_parameters"     an object without "parameters"
\*   "parameters_array"  an object whose "parameters" is not an object
\*   "no_themes"         "parameters" without "themes"
\*   "themes_string"     "themes" is a string
\*   "themes"            "themes" is an array of objects
BodyShapes ==
    {"no_content", "not_json", "array", "no_parameters", "parameters_array",
     "no_themes", "themes_string", "themes"}

NoResponse == [shape |-> "unset", themes |-> <<>>]

ServiceError == [shape |-> "raises", themes |-> <<>>]

Bodies(ids) ==
    {[shape |-> s, themes |-> <<>>] : s \in BodyShapes \ {"themes"}}
        \cup {[shape |-> "themes", themes |-> t] :
                 t \in UNION {[1 .. n -> ThemeItems(ids)] : n \in 0 .. MaxThemes}}

\* json.loads(response_text), the two .get and pd.DataFrame(themes_list):
\* the exception raised, or "frame" when a DataFrame is built
ParseOutcome(body) ==
    IF body.shape = "no_content" THEN "TypeError"
    ELSE IF body.shape = "not_json" THEN "ValueError"
    ELSE IF body.shape \in {"array", "parameters_array"} THEN "AttributeError"
    ELSE IF body.shape = "themes_string" THEN "ValueError"
    ELSE "frame"

\* response_data.get("parameters", {}).get("themes", [])
ThemesList(body) == IF body.shape = "themes" THEN body.themes ELSE <<>>

\* except ValueError as ve: st.error(...); return None
CaughtByExtract(outcome) == outcome = "ValueError"

\* the columns of pd.DataFrame(themes_list): the keys of all items
Columns(rows) == UNION {rows[i].keys : i \in 1 .. Len(rows)}

\* row["Theme"], row["Description"], row["Review IDs"], len(review_ids):
\* KeyError for a column no item has, TypeError for len(nan)
RowRaises(rows, i) ==
    \/ ~(ThemeKeys \subseteq Columns(rows))
    \/ "Review IDs" \notin rows[i].keys

\* the rows of "for index, row in themes_df.iterrows()" that reach st.write
RECURSIVE SectionsOf(_, _)
SectionsOf(rows, i) ==
    IF i > Len(rows) \/ RowRaises(rows, i) THEN <<>>
    ELSE <<rows[i]>> \o SectionsOf(rows, i + 1)

\* df["Review ID"]
ReviewIds(rows) == {rows[i].recommendationid : i \in 1 .. Len(rows)}

\* extract_themes is called once the DataFrame has been built
AtExtract == pc = "shown" /\ prog = "themes" /\ tpc = "off"

\* client.chat.completions.create raises: the call is outside every try
ExtractRaises ==
    /\ AtExtract
    /\ extract_calls' = extract_calls + 1
    /\ response_text' = ServiceError
    /\ themes_df' = ThemesRaised
    /\ tpc' = "crashed"
    /\ UNCHANGED <<notice, themes_table, theme_sections>>
    /\ UNCHANGED <<fetchVars, sentimentVars, summaryVars>>

\* the service replies: parse the reply into themes_df
ExtractReply ==
    \E body \in Bodies(ReviewIds(df)) :
        LET outcome == ParseOutcome(body)
        IN  /\ AtExtract
            /\ extract_calls' = extract_calls + 1
            /\ response_text' = body
            /\ themes_df' = IF outcome = "frame" THEN ThemesFrame(ThemesList(body))
                            ELSE IF CaughtByExtract(outcome) THEN ThemesNone
                            ELSE ThemesRaised
            /\ tpc' = IF outcome = "frame" \/ CaughtByExtract(outcome) THEN "extracted"
                      ELSE "crashed"
            /\ UNCHANGED <<notice, themes_table, theme_sections>>
            /\ UNCHANGED <<fetchVars, sentimentVars, summaryVars>>

\* if themes_df is not None: table and one section per row
\* else: st.warning("Failed to extract themes.")
ThemesDisplay ==
    /\ prog = "themes" /\ tpc = "extracted"
    /\ themes_table' = IF themes_df.kind = "frame" THEN themes_df.rows ELSE themes_table
    /\ theme_sections' = IF themes_df.kind = "frame" THEN SectionsOf(themes_df.rows, 1)
                         ELSE theme_sections
    /\ tpc' = IF themes_df.kind # "frame" THEN "failed"
              ELSE IF Len(SectionsOf(themes_df.rows, 1)) < Len(themes_df.rows)
                   THEN "crashed"
              ELSE "done"
    /\ UNCHANGED <<notice, extract_calls, response_text, themes_df>>
    /\ UNCHANGED <<fetchVars, sentimentVars, summaryVars>>

----------------------------------------------------------------------------
(* The dashboards *)

vars == <<fetchVars, sentimentVars, summaryVars, scriptVars>>

\* before the button is pressed
FetchIdle ==
    /\ upstream_memo = <<>>
    /\ start_timestamp = 0
    /\ end_timestamp = 0
    /\ params_cursor = 0
    /\ reviews_list = <<>>
    /\ request_count = 0
    /\ pc = "idle"
    /\ reviews_data = NoData
    /\ warned = FALSE
    /\ df = <<>>
    /\ prev_data = NoData
    /\ obs = NoObs

\* analyze_sentiments not entered
SentimentIdle ==
    /\ texts = <<>>
    /\ sentiments = <<>>
    /\ replied = <<>>
    /\ apc = "off"

\* the summary code not entered
SummaryIdle ==
    /\ frame = <<>>
    /\ top_5_positive = <<>>
    /\ top_5_negative = <<>>
    /\ nps = [promoters |-> 0, passives |-> 0, detractors |-> 0, total |-> 0,
              score |-> [kind |-> "unset", num |-> 0, den |-> 1]]
    /\ spc = "off"

\* no validation message yet, the theme code not entered
ScriptIdle ==
    /\ notice = "none"
    /\ extract_calls = 0
    /\ response_text = NoResponse
    /\ themes_df = NoThemes
    /\ themes_table = <<>>
    /\ theme_sections = <<>>
    /\ tpc = "off"

Init ==
    /\ prog \in {"app", "themes"}
    /\ start_date \in Days
    /\ end_date \in Days
    /\ upstream \in Upstreams(WindowEdges(start_date, end_date))
    /\ api_key_input \in BOOLEAN
    /\ max_reviews \in IF prog = "themes" THEN 1 .. MaxReviewsArg ELSE {0}
    /\ runs_left = 1
    /\ FetchIdle
    /\ SentimentIdle
    /\ SummaryIdle
    /\ ScriptIdle

\* the button pressed MaxRuns times with the same inputs
InitRerun ==
    /\ prog \in {"app", "themes"}
    /\ start_date \in Days
    /\ end_date \in Days
    /\ start_date <= end_date
    /\ upstream \in Upstreams(WindowEdges(start_date, end_date))
    /\ api_key_input = TRUE
    /\ max_reviews \in IF prog = "themes" THEN 1 .. MaxReviewsArg ELSE {0}
    /\ runs_left = MaxRuns
    /\ FetchIdle
    /\ SentimentIdle
    /\ SummaryIdle
    /\ ScriptIdle

Next ==
    \/ Click
    \/ AppException
    \/ AppNotSuccess
    \/ AppPage
    \/ AppShow
    \/ ThemesException
    \/ ThemesNotSuccess
    \/ ThemesPage
    \/ ThemesShow

Spec == Init /\ [][Next]_vars

SpecRerun == InitRerun /\ [][Next]_vars

\* analyze_sentiments applied to a list of review texts
InitSentiment ==
    /\ prog = "app"
    /\ upstream = [base |-> <<>>, long_at |-> 0, page |-> 1]
    /\ start_date = 1
    /\ end_date = 1
    /\ api_key_input = TRUE
    /\ max_reviews = 0
    /\ runs_left = 0
    /\ FetchIdle
    /\ texts \in {[i \in 1 .. n |-> i] : n \in 0 .. MaxTexts}
    /\ sentiments = <<>>
    /\ replied = <<>>
    /\ apc = "loop"
    /\ SummaryIdle
    /\ ScriptIdle

NextSentiment ==
    \/ SentimentRaises
    \/ SentimentNoContent
    \/ SentimentContent
    \/ SentimentReturn

SpecSentiment == InitSentiment /\ [][NextSentiment]_vars

\* the summary code applied to a classified frame: up to MaxRows rows in
\* fetch order, the rows from the second on sharing one sentiment
Frame(n, l, v) ==
    [i \in 1 .. n |-> [id |-> i, sentiment |-> l[Min(i, 2)], votes |-> v[i]]]

InitSummary ==
    /\ prog = "app"
    /\ upstream = [base |-> <<>>, long_at |-> 0, page |-> 1]
    /\ start_date = 1
    /\ end_date = 1
    /\ api_key_input = TRUE
    /\ max_reviews = 0
    /\ runs_left = 0
    /\ FetchIdle
    /\ SentimentIdle
    /\ \E n \in 0 .. MaxRows :
         \E l \in [1 .. Min(n, 2) -> Labels] :
           \E v \in [1 .. n -> 0 .. MaxVotes] :
             frame = Frame(n, l, v)
    /\ top_5_positive = <<>>
    /\ top_5_negative = <<>>
    /\ nps = [promoters |-> 0, passives |-> 0, detractors |-> 0, total |-> 0,
              score |-> [kind |-> "unset", num |-> 0, den |-> 1]]
    /\ spc = "top_positive"
    /\ ScriptIdle

NextSummary ==
    \/ TopPositive
    \/ TopNegative
    \/ NpsCategories

SpecSummary == InitSummary /\ [][NextSummary]_vars

\* the streams of at most one review
DashUpstreams(T) == {u \in Upstreams(T) : u.long_at = 0 /\ Len(u.base) <= 1}

\* one button run of either script from the sidebar inputs to the end of the page
InitDashboard ==
    /\ prog \in {"app", "themes"}
    /\ start_date \in Days
    /\ end_date \in Days
    /\ upstream \in DashUpstreams(WindowEdges(start_date, end_date))
    /\ api_key_input \in BOOLEAN
    /\ max_reviews \in IF prog = "themes" THEN 1 .. MaxReviewsArg ELSE {0}
    /\ runs_left = 1
    /\ FetchIdle
    /\ SentimentIdle
    /\ SummaryIdle
    /\ ScriptIdle

NextDashboard ==
    \/ Refuse
    \/ Click
    \/ AppException
    \/ AppNotSuccess
    \/ AppPage
    \/ AppShow
    \/ AppAnalyze
    \/ SentimentRaises
    \/ SentimentNoContent
    \/ SentimentContent
    \/ SentimentReturn
    \/ AppSummary
    \/ TopPositive
    \/ TopNegative
    \/ NpsCategories
    \/ ThemesException
    \/ ThemesNotSuccess
    \/ ThemesPage
    \/ ThemesShow
    \/ ExtractRaises
    \/ ExtractReply
    \/ ThemesDisplay

SpecDashboard == InitDashboard /\ [][NextDashboard]_vars

\* themes.py is opened for the last button press, after the runs of
\* streamlit_app.py, with the same sidebar inputs and the same upstream:
\* reviews_data = fetch_reviews(max_reviews=200), or a smaller cap
OpenThemes ==
    /\ prog = "app"
    /\ Finished
    /\ runs_left = 1
    /\ prog' = "themes"
    /\ max_reviews' \in (1 .. MaxReviewsArg) \cup {DefaultMaxReviews}
    /\ UNCHANGED <<upstream, upstream_memo, start_date, end_date, api_key_input,
                   start_timestamp, end_timestamp, params_cursor, reviews_list,
                   request_count, pc, reviews_data, warned, df, runs_left,
                   prev_data, obs>>
    /\ UNCHANGED <<sentimentVars, summaryVars, scriptVars>>

\* streamlit_app.py first, on an upstream that answers every request with a
\* page and a fresh cursor
InitBoth ==
    /\ prog = "app"
    /\ start_date \in Days
    /\ end_date \in Days
    /\ start_date <= end_date
    /\ upstream \in Upstreams(WindowEdges(start_date, end_date))
    /\ api_key_input = TRUE
    /\ max_reviews = 0
    /\ runs_left = MaxRuns
    /\ upstream_memo = [c \in 0 .. MaxFaultCursor |-> "ok"]
    /\ start_timestamp = 0
    /\ end_timestamp = 0
    /\ params_cursor = 0
    /\ reviews_list = <<>>
    /\ request_count = 0
    /\ pc = "idle"
    /\ reviews_data = NoData
    /\ warned = FALSE
    /\ df = <<>>
    /\ prev_data = NoData
    /\ obs = NoObs
    /\ SentimentIdle
    /\ SummaryIdle
    /\ ScriptIdle

NextBoth ==
    \/ Click
    \/ AppPage
    \/ AppShow
    \/ OpenThemes
    \/ ThemesPage
    \/ ThemesShow

SpecBoth == InitBoth /\ [][NextBoth]_vars

TypeOK ==
    /\ pc \in {"idle", "fetch", "returned", "shown", "nothing", "crashed"}
    /\ request_count \in 0 .. max_requests
    /\ runs_left \in 0 .. MaxRuns

----------------------------------------------------------------------------
(* What the selected dates ask for, stated on the upstream stream *)

InDates(r) ==
    /\ r.timestamp_created >= start_date * DayLen
    /\ r.timestamp_created <= (end_date + 1) * DayLen - 1

BeforeDates(r) == r.timestamp_created < start_date * DayLen

\* the stream up to, not including, its first review older than the window
RECURSIVE CutAtOlder(_, _)
CutAtOlder(s, i) ==
    IF i > Len(s) \/ BeforeDates(s[i]) THEN SubSeq(s, 1, i - 1)
    ELSE CutAtOlder(s, i + 1)

Expected == SelectSeq(CutAtOlder(Stream(upstream), 1), InDates)

Fetched == reviews_data.kind = "list"

\* every request of the current run was answered with a page and a fresh cursor
AllOk == obs.answer = "ok"

HasNewer == \E i \in 1 .. Len(upstream.base) : upstream.base[i] > (end_date + 1) * DayLen - 1

HasOlder == \E i \in 1 .. Len(upstream.base) : upstream.base[i] < start_date * DayLen

----------------------------------------------------------------------------
(* C1 *)

\* C1 as stated: whenever fetch_reviews returns a list from an upstream that
\* answered every request with a page and a fresh cursor, the list is exactly
\* the reviews of the stream inside the window, in upstream order, cut at the
\* first review older than the window.
C1_ExactWindow == (Fetched /\ AllOk) => reviews_data.val = Expected

\* C1 amended: the returned list is always a prefix of the in-window reviews
\* of the stream in upstream order, and it is all of them when every request
\* was answered with a page and a fresh cursor, the request budget warning was
\* not raised and (themes.py) fewer than max_reviews reviews were accepted.
C1_WindowPrefix ==
    Fetched =>
        /\ IsPrefix(reviews_data.val, Expected)
        /\ (AllOk /\ ~warned /\ ~(prog = "themes" /\ Len(reviews_data.val) >= max_reviews))
               => reviews_data.val = Expected

\* a complete fetch over several pages that skipped a newer review, accepted
\* one and was cut by an older one
C1_Witness ==
    /\ Fetched /\ AllOk /\ ~warned
    /\ HasNewer /\ HasOlder
    /\ reviews_data.val # <<>>
    /\ reviews_data.val = Expected
    /\ obs.requests >= 2

----------------------------------------------------------------------------
(* C2 *)

\* C2: once a review older than the window has been scanned, no further page
\* request is issued and the accumulated reviews are returned: the number of
\* requests stays what it was when the older review was scanned.
C2_StopAtOlder ==
    obs.older_at # 0 =>
        /\ obs.requests = obs.older_at
        /\ pc # "fetch" => reviews_data = ReturnList(reviews_list)

----------------------------------------------------------------------------
(* C3 *)

\* C3: after a request that raised or came back with success != 1, the caller
\* holds no list (None or the exception) and no row reaches the DataFrame.
C3_NoPartialData ==
    obs.answer \in {"not_success", "exception"} =>
        /\ reviews_data.kind \in {"None", "raised"}
        /\ df = <<>>
        /\ pc \in {"returned", "nothing", "crashed"}

\* a failure on a later page, after reviews had been accumulated, went
\* through the caller's guard
C3_Witness ==
    /\ obs.answer = "not_success"
    /\ reviews_list # <<>>
    /\ obs.requests >= 2
    /\ pc = "nothing"

----------------------------------------------------------------------------
(* C4 *)

\* C4: a run never issues more than max_requests page requests, and when the
\* budget is used up the loop has been left with the warning and the list
\* accumulated so far, not with a failure.
C4_RequestBudget ==
    /\ obs.requests <= max_requests
    /\ request_count >= max_requests => warned
    /\ warned => (pc # "fetch" /\ reviews_data = ReturnList(reviews_list))

\* the budget ran out on a stream that kept delivering in-window reviews
C4_Witness ==
    /\ warned
    /\ obs.requests = max_requests
    /\ Len(reviews_data.val) >= max_requests
    /\ pc = "shown"

----------------------------------------------------------------------------
(* C5 *)

\* C5: after a page answer that carries the cursor that was sent, or no
\* reviews, the loop has been left and the accumulated reviews are returned.
C5_StopOnStallOrEmpty ==
    (obs.answer \in {"ok", "same_cursor"} /\ (obs.got = obs.sent \/ obs.empty)) =>
        /\ pc # "fetch"
        /\ reviews_data = ReturnList(reviews_list)

\* the cursor stalled on a non-empty page while more of the stream was left
C5_Witness ==
    /\ obs.answer = "same_cursor"
    /\ ~obs.empty
    /\ obs.requests >= 2
    /\ params_cursor + upstream.page < StreamLen(upstream)
    /\ reviews_list # <<>>
    /\ pc = "shown"

----------------------------------------------------------------------------
(* C6 *)

\* C6: in themes.py the accepted list never exceeds max_reviews, and once it
\* has max_reviews elements the loop has been left and the first max_reviews
\* in-window reviews of the stream, in upstream order, are returned.
C6_MaxReviews ==
    prog = "themes" =>
        /\ Len(reviews_list) <= max_reviews
        /\ (pc # "idle" /\ Len(reviews_list) >= max_reviews) =>
              /\ pc # "fetch"
              /\ reviews_data = ReturnList(Prefix(Expected, max_reviews))

\* the cap cut a stream that had more in-window reviews, on a later page
C6_Witness ==
    /\ prog = "themes"
    /\ Fetched
    /\ Len(reviews_data.val) = max_reviews
    /\ Len(Expected) > max_reviews
    /\ obs.requests >= 2

----------------------------------------------------------------------------
(* C7 *)

\* C7: a second button run with the same inputs against the same upstream
\* hands back what the first run handed back.
C7_Idempotent ==
    (prev_data.kind # "unset" /\ reviews_data.kind # "unset") => reviews_data = prev_data

\* the second run returned a non-empty list after several pages, the first
\* run having left a cursor other than "*"
C7_Witness ==
    /\ prev_data.kind # "unset"
    /\ Fetched
    /\ reviews_data.val # <<>>
    /\ obs.requests >= 2
    /\ params_cursor # InitialCursor

----------------------------------------------------------------------------
(* C8 *)

\* item i of the batch failed: the call raised, the reply had no content, or
\* its stripped content is not one of the three labels
ItemFailed(i) ==
    \/ replied[i].kind \in {"raises", "no_content"}
    \/ /\ replied[i].kind = "content"
       /\ Strip(replied[i].content) \notin {<<l>> : l \in Labels}

\* C8: analyze_sentiments returns one label per input text, in input order,
\* each of Positive / Negative / Neutral; an item whose call failed or whose
\* reply is not an allowed label is Neutral and the items after it are
\* labelled all the same.
C8_OneLabelPerItem ==
    /\ Len(sentiments) <= Len(texts)
    /\ Len(replied) = Len(sentiments)
    /\ \A i \in 1 .. Len(sentiments) :
          /\ sentiments[i] \in Labels
          /\ ItemFailed(i) => sentiments[i] = "Neutral"
          /\ ~ItemFailed(i) => <<sentiments[i]>> = Strip(replied[i].content)
    /\ apc = "returned" => Len(sentiments) = Len(texts)

\* a returned batch whose first item raised and whose second item was
\* answered with a padded allowed label
C8_Witness ==
    /\ apc = "returned"
    /\ Len(texts) >= 2
    /\ replied[1].kind = "raises"
    /\ replied[2].kind = "content"
    /\ Len(replied[2].content) = 2
    /\ sentiments[2] = "Negative"

----------------------------------------------------------------------------
(* C9 *)

----------------------------------------------------------------------------
(* C10 *)

RowsWith(label) == {frame[i] : i \in {j \in 1 .. Len(frame) : frame[j].sentiment = label}}

\* list holds at most TopN distinct rows of the frame, all of the given
\* sentiment, as many as there are up to TopN, in descending order of votes,
\* and no row left out has more votes than a row taken
TopOfSentiment(list, label) ==
    /\ Len(list) <= TopN
    /\ Len(list) = Min(TopN, Cardinality(RowsWith(label)))
    /\ \A i \in 1 .. Len(list) : list[i] \in RowsWith(label)
    /\ \A i, j \in 1 .. Len(list) : i # j => list[i].id # list[j].id
    /\ \A i, j \in 1 .. Len(list) : i < j => list[i].votes >= list[j].votes
    /\ \A r \in RowsWith(label) :
          (\A i \in 1 .. Len(list) : list[i] # r) =>
              \A i \in 1 .. Len(list) : list[i].votes >= r.votes

\* rows with equal votes stand in fetch order
TiesInFetchOrder(list) ==
    \A i, j \in 1 .. Len(list) :
        (i < j /\ list[i].votes = list[j].votes) => list[i].id < list[j].id

PositiveListed == spc \in {"top_negative", "nps", "done"}

NegativeListed == spc \in {"nps", "done"}

\* C10 as stated: both top lists hold at most 5 rows of their sentiment, the
\* highest voted ones, in descending order of helpful votes, rows with equal
\* votes in original fetch order.
C10_TopFiveStable ==
    /\ PositiveListed =>
          (TopOfSentiment(top_5_positive, "Positive") /\ TiesInFetchOrder(top_5_positive))
    /\ NegativeListed =>
          (TopOfSentiment(top_5_negative, "Negative") /\ TiesInFetchOrder(top_5_negative))

\* C10 amended: both top lists hold at most 5 rows of their sentiment, the
\* highest voted ones, in descending order of helpful votes; nothing is said
\* about the order of rows with equal votes.
C10_TopFive ==
    /\ PositiveListed => TopOfSentiment(top_5_positive, "Positive")
    /\ NegativeListed => TopOfSentiment(top_5_negative, "Negative")

\* more than five positive rows with different votes were cut to five, next
\* to a non-empty negative list
C10_Witness ==
    /\ spc = "done"
    /\ Cardinality(RowsWith("Positive")) > TopN
    /\ Len(top_5_positive) = TopN
    /\ top_5_positive[1].votes > top_5_positive[TopN].votes
    /\ \E r \in RowsWith("Positive") :
          /\ \A i \in 1 .. TopN : top_5_positive[i] # r
          /\ r.votes = top_5_positive[TopN].votes

----------------------------------------------------------------------------
(* C11 *)

\* the reply is a document of the response schema: an object whose
\* "parameters" hold a "themes" array of items with all three keys
SchemaValid(body) ==
    /\ body.shape = "themes"
    /\ \A i \in 1 .. Len(body.themes) : body.themes[i].keys = ThemeKeys

\* the extraction service raised or replied something else than such a document
ExtractionFailed == response_text # NoResponse /\ ~SchemaValid(response_text)

\* C11: when theme extraction fails (the service raises, or replies text that
\* is not JSON or not a document of the schema), no theme reaches the page,
\* neither in the table nor as a section, the run is not aborted and the
\* DataFrame still holds the fetched reviews.
C11_ExtractionFailureContained ==
    ExtractionFailed =>
        /\ themes_table = <<>>
        /\ theme_sections = <<>>
        /\ tpc # "crashed"
        /\ df = reviews_data.val

----------------------------------------------------------------------------
(* C12 *)

\* C12: with the start date after the end date, or without a key, the run
\* never sends a request to the review API, to the classification service or
\* to the extraction service and never leaves the validation; the message it
\* puts on the page is the error for the dates, else the note about the key.
C12_NoCallWhenInvalid ==
    (start_date > end_date \/ ~api_key_input) =>
        /\ obs.requests = 0
        /\ replied = <<>>
        /\ extract_calls = 0
        /\ pc = "idle" /\ apc = "off" /\ tpc = "off"
        /\ notice \in {"none", IF start_date > end_date THEN "error" ELSE "info"}

\* the run without a key and with valid dates has put its note on the page
C12_Witness ==
    /\ ~api_key_input
    /\ start_date <= end_date
    /\ notice = "info"
    /\ obs.requests = 0 /\ replied = <<>> /\ extract_calls = 0

----------------------------------------------------------------------------
(* C13 *)

\* fetch_reviews of themes.py has returned, in the run that followed a run of
\* streamlit_app.py
ThemesAfterApp == prog = "themes" /\ pc = "returned"

\* C13: on an upstream that answers every request with a page and a fresh
\* cursor and holds fewer in-window reviews than max_reviews, fetch_reviews of
\* themes.py returns the list fetch_reviews of streamlit_app.py returned for
\* the same window.
C13_SameSequence ==
    (ThemesAfterApp /\ Len(Expected) < max_reviews) => reviews_data = prev_data

\* both returned the same non-empty list although streamlit_app.py returned at
\* the review older than the window and themes.py went on asking for pages
C13_Witness ==
    /\ ThemesAfterApp
    /\ max_reviews = DefaultMaxReviews
    /\ Len(Expected) < max_reviews
    /\ reviews_data.val # <<>>
    /\ reviews_data = prev_data
    /\ obs.older_at # 0
    /\ obs.requests > obs.older_at

----------------------------------------------------------------------------
(* C14 *)

\* C14: in streamlit_app.py analyze_sentiments and the summary code are only
\* entered after fetch_reviews returned a list of at least one review, and
\* whenever the score has been computed total_responses was positive and the
\* division had a value.
C14_ScoreOnlyWithReviews ==
    prog = "app" =>
        /\ (apc # "off" \/ spc # "off") =>
               (reviews_data.kind = "list" /\ Len(reviews_data.val) >= 1)
        /\ nps.score.kind # "unset" => (nps.total > 0 /\ nps.score.kind = "value")

\* the score was computed in a run whose fetch returned reviews
C14_Witness ==
    /\ prog = "app"
    /\ spc = "done"
    /\ Len(reviews_data.val) >= 1
    /\ Len(replied) = Len(reviews_data.val)
    /\ nps.total = Len(reviews_data.val)
    /\ nps.score.kind = "value"

====
